---- MODULE Spec2Model ----
(***************************************************************************)
(* A model of backend/main.py, the FastAPI service of the EV battery       *)
(* management demo: the /predict/ handler with its synthetic data          *)
(* generation and chart rendering, the /warmup, / and /health handlers,    *)
(* and the time-gated cleanup of the static directory.                     *)
(*                                                                         *)
(* Handlers are "async def" bodies without an await that suspends, so each *)
(* one runs to completion on the event loop: one action per handler.       *)
(* Strings are sequences of one-character strings, so that lower(),        *)
(* startswith() and endswith() are computed.  Numbers produced by          *)
(* round(x, 4) are integers in units of 0.0001; unrounded numbers are      *)
(* integers in units of 0.00001.  The request counters and the resource    *)
(* monitor (telemetry only) are left out.                                  *)
(***************************************************************************)
EXTENDS Integers, Sequences, FiniteSets, TLC

VARIABLES
    now,            \* time.time(), in seconds since the module was imported
    last_cleanup,   \* global last_cleanup
    static,         \* the directory "static": file name -> [ctime, is_dir]
    np_random,      \* the state of numpy's global random generator
    open_figures,   \* number of pyplot figures that are open
    response,       \* the response to the last request
    cleanup_log,    \* what the last call of cleanup_resources logged
    op,             \* history: the operation of the last step and its faults
    first_table     \* history: vehicle_type -> the table_data of its first
                    \* success and the number of its successes (up to 2)

vars == <<now, last_cleanup, static, np_random, open_figures, response,
          cleanup_log, op, first_table>>

-----------------------------------------------------------------------------
(* Bounds of the model *)

MaxTime == 2500
RngMod == 8
MaxFigures == 2

\* The clock advances by one of these steps (seconds).
TickSteps == {600, 601}

(* Program constants *)

CleanupInterval == 600
MaxChartAge == 1800

-----------------------------------------------------------------------------
(* Strings *)

UpperToLower ==
    [c \in {"A", "B", "C", "E", "I", "K", "R", "S", "U"} |->
        CASE c = "A" -> "a" [] c = "B" -> "b" [] c = "C" -> "c"
          [] c = "E" -> "e" [] c = "I" -> "i" [] c = "K" -> "k"
          [] c = "R" -> "r" [] c = "S" -> "s" [] c = "U" -> "u"]

\* str.lower()
lower(s) ==
    [i \in DOMAIN s |->
        IF s[i] \in DOMAIN UpperToLower THEN UpperToLower[s[i]] ELSE s[i]]

\* str.startswith(prefix)
startswith(s, prefix) ==
    /\ Len(s) >= Len(prefix)
    /\ SubSeq(s, 1, Len(prefix)) = prefix

\* str.endswith(suffix)
endswith(s, suffix) ==
    /\ Len(s) >= Len(suffix)
    /\ SubSeq(s, Len(s) - Len(suffix) + 1, Len(s)) = suffix

Car == <<"c", "a", "r">>
Bike == <<"b", "i", "k", "e">>
Scooter == <<"s", "c", "o", "o", "t", "e", "r">>
Bus == <<"b", "u", "s">>
CapitalBus == <<"B", "u", "s">>
Airplane == <<"a", "i", "r", "p", "l", "a", "n", "e">>

valid_types == <<Car, Bike, Scooter, Bus>>

\* The vehicle_type form values the requests carry.
VehicleInputs == {Car, CapitalBus, Airplane}

ChartPrefix == <<"c", "h", "a", "r", "t", "_">>
PngSuffix == <<".", "p", "n", "g">>
StaticUrlPrefix == <<"/", "s", "t", "a", "t", "i", "c", "/">>

PlaceholderName ==
    <<"p", "l", "a", "c", "e", "h", "o", "l", "d", "e", "r">> \o PngSuffix
NotesName == ChartPrefix \o <<"n", ".", "t", "x", "t">>
KeepName == ChartPrefix \o <<"k", "e", "e", "p">> \o PngSuffix

\* Values of uuid.uuid4().hex[:8]
UuidSamples ==
    { <<"3", "f", "2", "a", "9", "c", "1", "e">>,
      <<"0", "0", "b", "7", "d", "4", "e", "8">> }

chart_filename(hex8) == ChartPrefix \o hex8 \o PngSuffix

chart_url_of(filename) == StaticUrlPrefix \o filename

PlaceholderUrl == chart_url_of(PlaceholderName)

ChartNames == {chart_filename(h) : h \in UuidSamples}

-----------------------------------------------------------------------------
(* The synthetic data of predict *)

\* hashlib.md5(vehicle_type.encode()).hexdigest()[:8] as two 16-bit halves
\* <<high, low>>, for the form values of VehicleInputs.
md5_prefix(vehicle_type) ==
    CASE vehicle_type = Car -> <<59097, 25858>>         \* e6d96502
      [] vehicle_type = CapitalBus -> <<28235, 14527>>  \* 6e4b38bf
      [] vehicle_type = Airplane -> <<17898, 14248>>    \* 45ea37a8

\* int(..., 16) % (2**31)
seed_of(vehicle_type) ==
    LET h == md5_prefix(vehicle_type)
    IN  (h[1] % 32768) * 65536 + h[2]

\* np.random.seed(seed): the generator's state becomes a function of the
\* seed alone.  The generator is modelled with RngMod states.
np_random_seed_unseeded(state, seed) == state

np_random_seed(state, seed) == seed % RngMod

\* One step of the generator; the number drawn is the new state / RngMod,
\* a fraction in [0, 1).
np_random_next(state) == (5 * state + 3) % RngMod

\* np.random.random((10, 5)): ten rows of five draws each.
draw_row(state) ==
    np_random_next(np_random_next(np_random_next(np_random_next(
        np_random_next(state)))))

draw_two_rows(state) == draw_row(draw_row(state))

np_random_random_10_5(state) ==
    draw_two_rows(draw_two_rows(draw_two_rows(draw_two_rows(
        draw_two_rows(state)))))

\* A number in units of 0.0001 as a number in units of 0.00001.
fine_of(value) == value * 10

\* round(x, 4) of x given in units of 0.00001: an integer in units of
\* 0.0001, ties to even.
round4(fine) ==
    LET q == fine \div 10
        r == fine % 10
    IN  IF r > 5 \/ (r = 5 /\ q % 2 = 1)
        THEN q + 1
        ELSE q

\* np.random.uniform(low, high) for the fraction draw / RngMod, in units
\* of 0.00001 (low and high are whole numbers).
uniform(low, high, draw) ==
    LET span == (high - low) * draw
    IN  (low + span \div RngMod) * 100000
            + ((span % RngMod) * 100000) \div RngMod

\* np.random.uniform(-0.1, 0.1) * original_val in units of 0.00001, for
\* original_val in units of 0.0001.
variation_of(original_val, draw) ==
    (original_val * (2 * draw - RngMod)) \div RngMod

numeric_features ==
    << "SOC (%)", "Voltage (V)", "Current (A)", "Battery Temp (C)",
       "Ambient Temp (C)", "Charging Duration (min)",
       "Degradation Rate (%)", "Efficiency (%)", "Charging Cycles" >>

\* The range the if-chain on feature.lower() selects for each feature.
base_range(feature) ==
    CASE feature \in {"Battery Temp (C)", "Ambient Temp (C)"} -> <<20, 45>>
      [] feature \in {"SOC (%)", "Efficiency (%)"} -> <<70, 95>>
      [] feature = "Voltage (V)" -> <<350, 400>>
      [] feature = "Current (A)" -> <<10, 50>>
      [] feature = "Charging Cycles" -> <<500, 2000>>
      [] OTHER -> <<10, 100>>

difference_swapped(original_val, predicted_val) ==
    round4(fine_of(original_val) - fine_of(predicted_val))

\* round(predicted_val - original_val, 4)
difference_of(original_val, predicted_val) ==
    round4(fine_of(predicted_val) - fine_of(original_val))

\* One pass of the loop over numeric_features: two draws and one row.
make_row(feature, state) ==
    LET base == base_range(feature)
        s1 == np_random_next(state)
        original_val == round4(uniform(base[1], base[2], s1))
        s2 == np_random_next(s1)
        variation == variation_of(original_val, s2)
        predicted_val == round4(fine_of(original_val) + variation)
    IN  [ row |-> [ parameter |-> feature,
                    original |-> original_val,
                    predicted |-> predicted_val,
                    difference |-> difference_of(original_val, predicted_val) ],
          state |-> s2 ]

\* The loop: the rows and the generator's state after the last draw.
RECURSIVE generate_rows(_, _, _)
generate_rows(i, state, rows) ==
    IF i > Len(numeric_features)
    THEN [rows |-> rows, state |-> state]
    ELSE LET r == make_row(numeric_features[i], state)
         IN  generate_rows(i + 1, r.state, Append(rows, r.row))

\* The loop's result for each state the generator can be in.
synthetic_data == [state \in 0 .. (RngMod - 1) |-> generate_rows(1, state, <<>>)]

-----------------------------------------------------------------------------
(* The static directory and cleanup_resources *)

\* What the directory holds when the process starts: the placeholder image
\* and the further entries given.  The entry KeepName is a directory, which
\* os.remove cannot delete.
StartupEntries(further) ==
    [n \in {PlaceholderName} \cup further |->
        [ctime |-> 0, is_dir |-> (n = KeepName)]]

remove(dir, filename) == [n \in DOMAIN dir \ {filename} |-> dir[n]]

write_file(dir, filename, time) ==
    [n \in DOMAIN dir \cup {filename} |->
        IF n = filename THEN [ctime |-> time, is_dir |-> FALSE] ELSE dir[n]]

\* os.listdir returns the entries in arbitrary order.
RECURSIVE listdir(_)
listdir(names) ==
    IF names = {} THEN {<<>>}
    ELSE UNION {{<<n>> \o rest : rest \in listdir(names \ {n})} : n \in names}

\* filename.startswith("chart_") and filename.endswith(".png")
is_chart_name(filename) ==
    startswith(filename, ChartPrefix) /\ endswith(filename, PngSuffix)

is_old_at_threshold(file_age) == file_age >= MaxChartAge

\* file_age > 1800
is_old(file_age) == file_age > MaxChartAge

\* The loop over the listing.  os.remove raises on an entry it cannot
\* delete, which ends the loop: ok is FALSE and the entries already
\* deleted stay deleted.
RECURSIVE sweep(_, _, _)
sweep(listing, dir, current_time) ==
    IF listing = <<>>
    THEN [dir |-> dir, ok |-> TRUE]
    ELSE LET filename == Head(listing)
             file_age == current_time - dir[filename].ctime
         IN  IF is_chart_name(filename) /\ is_old(file_age)
             THEN IF dir[filename].is_dir
                  THEN [dir |-> dir, ok |-> FALSE]
                  ELSE sweep(Tail(listing), remove(dir, filename), current_time)
             ELSE sweep(Tail(listing), dir, current_time)

\* The lines cleanup_resources logs: "Cleaned up old chart: <filename>" for
\* each file removed, then "Resource cleanup completed" or "Cleanup error".
cleanup_lines(before, result) ==
    [ outcome |-> IF result.ok THEN "completed" ELSE "error",
      removed |-> DOMAIN before \ DOMAIN result.dir ]

\* current_time - last_cleanup > 600
cleanup_due(current_time, last) == current_time - last > CleanupInterval

stamp_on_error(result, current_time, last) == current_time

\* last_cleanup = current_time, reached only when the loop did not raise
stamp(result, current_time, last) ==
    IF result.ok THEN current_time ELSE last

\* The outcomes of one call of cleanup_resources at current_time, one per
\* listing order: the directory, last_cleanup and the line logged.
cleanup_resources(dir, last, current_time) ==
    IF cleanup_due(current_time, last)
    THEN { LET result == sweep(listing, dir, current_time)
           IN  [ static |-> result.dir,
                 last_cleanup |-> stamp(result, current_time, last),
                 log |-> cleanup_lines(dir, result) ]
           : listing \in listdir(DOMAIN dir) }
    ELSE { [ static |-> dir, last_cleanup |-> last,
             log |-> [outcome |-> "skipped", removed |-> {}] ] }

-----------------------------------------------------------------------------
(* Responses *)

NoTable == <<>>
NoText == <<>>

\* Texts of the exceptions psutil can raise in monitor.log_request.
ExcTexts == {"psutil.AccessDenied (pid=1)", "[Errno 12] Cannot allocate memory"}

\* Where chart rendering can fail: plt.figure, a drawing call, plt.savefig.
ChartFaults == {"none", "figure", "draw", "savefig"}

LogFaults == {"none"} \cup ExcTexts

InvalidTypeDetail == <<"Invalid vehicle type. Must be one of: ", valid_types>>

\* f"Prediction failed: {str(e)}"
prediction_failed_detail(text) == <<"Prediction failed: ", text>>

\* JSONResponse(status_code=exc.status_code, content={"error": exc.detail})
http_exception_handler(request_op, vehicle_type, status_code, detail) ==
    [ op |-> request_op, code |-> status_code, status |-> "error",
      vehicle_type |-> vehicle_type, chart_url |-> NoText,
      table_data |-> NoTable, error |-> detail ]

plain_response(request_op, status) ==
    [ op |-> request_op, code |-> 200, status |-> status,
      vehicle_type |-> NoText, chart_url |-> NoText,
      table_data |-> NoTable, error |-> NoText ]

-----------------------------------------------------------------------------
(* create_optimized_chart *)

chart_except_reraise ==
    [chart_url |-> NoText, raised |-> TRUE]

\* except Exception: return "/static/placeholder.png"
chart_except ==
    [chart_url |-> PlaceholderUrl, raised |-> FALSE]

\* The figure opened by plt.figure is closed by plt.close() on the path
\* that saved the file; the except clause closes nothing.
create_optimized_chart(dir, figures, fault, hex8, time) ==
    IF fault = "figure"
    THEN [static |-> dir, open_figures |-> figures, result |-> chart_except]
    ELSE IF fault \in {"draw", "savefig"}
    THEN [static |-> dir, open_figures |-> figures + 1, result |-> chart_except]
    ELSE [ static |-> write_file(dir, chart_filename(hex8), time),
           open_figures |-> (figures + 1) - 1,
           result |-> [ chart_url |-> chart_url_of(chart_filename(hex8)),
                        raised |-> FALSE ] ]

-----------------------------------------------------------------------------
(* Handlers *)

Range(seq) == {seq[i] : i \in DOMAIN seq}

is_valid_type_unchecked(vehicle_type) == TRUE

\* vehicle_type.lower() in valid_types
is_valid_type(vehicle_type) == lower(vehicle_type) \in Range(valid_types)

\* History of the successes of predict.
record_first(table, vehicle_type, rows) ==
    IF table[vehicle_type].calls = 0
    THEN [table EXCEPT ![vehicle_type] = [rows |-> rows, calls |-> 1]]
    ELSE [table EXCEPT ![vehicle_type].calls = 2]

operation(name) == [name |-> name, chart_fault |-> "none", log_fault |-> "none"]

\* POST /predict/.  chart_fault and log_fault say where the environment
\* makes the call fail; hex8 is the identifier uuid4 gives.  The cleanup task
\* added to background_tasks runs once the success response is returned; a
\* request that ends in an HTTPException runs no background task.  Failed
\* renders that leak a figure are counted up to MaxFigures.
predict(vehicle_type, chart_fault, log_fault, hex8) ==
    /\ chart_fault \in {"draw", "savefig"} => open_figures < MaxFigures
    /\ op' = [name |-> "predict", chart_fault |-> chart_fault,
               log_fault |-> log_fault]
    /\ now' = now
    /\ IF ~is_valid_type(vehicle_type)
       THEN /\ response' = http_exception_handler("predict", vehicle_type,
                                                  400, InvalidTypeDetail)
            /\ UNCHANGED <<last_cleanup, static, np_random, open_figures,
                           cleanup_log, first_table>>
       ELSE LET seeded == np_random_seed(np_random, seed_of(vehicle_type))
                data == synthetic_data[seeded]
                chart == create_optimized_chart(static, open_figures,
                                                chart_fault, hex8, now)
            IN  /\ np_random' = data.state
                /\ open_figures' = chart.open_figures
                /\ IF chart.result.raised \/ log_fault # "none"
                   THEN \* except Exception: the background task is dropped
                        /\ response' = http_exception_handler(
                               "predict", vehicle_type, 500,
                               prediction_failed_detail(
                                   IF chart.result.raised
                                   THEN "chart" ELSE log_fault))
                        /\ static' = chart.static
                        /\ UNCHANGED <<last_cleanup, cleanup_log, first_table>>
                   ELSE /\ response' =
                               [ op |-> "predict", code |-> 200,
                                 status |-> "success",
                                 vehicle_type |-> vehicle_type,
                                 chart_url |-> chart.result.chart_url,
                                 table_data |-> data.rows,
                                 error |-> NoText ]
                        /\ first_table' = record_first(first_table,
                                                       vehicle_type, data.rows)
                        /\ \* background_tasks: cleanup_resources
                           \E out \in cleanup_resources(chart.static,
                                                        last_cleanup, now) :
                              /\ static' = out.static
                              /\ last_cleanup' = out.last_cleanup
                              /\ cleanup_log' = out.log

\* GET /warmup: np.random.random((10, 5))
warmup ==
    /\ op' = operation("warmup")
    /\ np_random' = np_random_random_10_5(np_random)
    /\ response' = plain_response("warmup", "warmed_up")
    /\ UNCHANGED <<now, last_cleanup, static, open_figures, cleanup_log,
                   first_table>>

\* GET /
root ==
    /\ op' = operation("root")
    /\ response' = plain_response("root", "running")
    /\ UNCHANGED <<now, last_cleanup, static, np_random, open_figures,
                   cleanup_log, first_table>>

\* GET /health
health_check ==
    /\ op' = operation("health")
    /\ \E out \in cleanup_resources(static, last_cleanup, now) :
          /\ static' = out.static
          /\ last_cleanup' = out.last_cleanup
          /\ cleanup_log' = out.log
    /\ response' = plain_response("health", "healthy")
    /\ UNCHANGED <<now, np_random, open_figures, first_table>>

\* Time passes.
Tick ==
    /\ \E d \in TickSteps :
          /\ now + d <= MaxTime
          /\ now' = now + d
    /\ op' = operation("tick")
    /\ UNCHANGED <<last_cleanup, static, np_random, open_figures, response,
                   cleanup_log, first_table>>

-----------------------------------------------------------------------------
(* Specifications *)

\* The state after the module is imported; the generator starts from the
\* operating system's entropy.
InitWith(directories) ==
    /\ now = 0
    /\ last_cleanup = 0
    /\ \E further \in directories : static = StartupEntries(further)
    /\ np_random \in 0 .. (RngMod - 1)
    /\ open_figures = 0
    /\ response = plain_response("none", "")
    /\ cleanup_log = [outcome |-> "none", removed |-> {}]
    /\ op = operation("init")
    /\ first_table = [v \in VehicleInputs |-> [rows |-> NoTable, calls |-> 0]]

Init == InitWith({{}})

\* The directory holds at most one entry besides the placeholder: a text
\* file or an undeletable entry, both named like charts.
InitSweep == InitWith({{}, {NotesName}, {KeepName}})

\* Request handling while the process is younger than the cleanup interval,
\* with every fault of chart rendering and of monitor.log_request.
Next ==
    \/ \E v \in VehicleInputs, cf \in ChartFaults, lf \in LogFaults,
          h \in UuidSamples : predict(v, cf, lf, h)
    \/ warmup
    \/ root
    \/ health_check

Spec == Init /\ [][Next]_vars

\* Housekeeping over time: predictions that succeed, health checks and the
\* clock.
NextSweep ==
    \/ Tick
    \/ \E h \in UuidSamples : predict(Car, "none", "none", h)
    \/ health_check

SpecSweep == InitSweep /\ [][NextSweep]_vars

\* Health checks keep arriving and time advances.
FairSweep == SpecSweep /\ WF_vars(Tick) /\ WF_vars(health_check)

-----------------------------------------------------------------------------
(* Properties *)

KnownTypes ==
    { <<"c", "a", "r">>, <<"b", "i", "k", "e">>,
      <<"s", "c", "o", "o", "t", "e", "r">>, <<"b", "u", "s">> }

PredictAnswered == op.name = "predict" /\ response.op = "predict"

Succeeded == PredictAnswered /\ response.status = "success"

\* The cleanup call of the step just taken, if the step made one.
CleanupCalled ==
    \/ op.name = "health"
    \/ op.name = "predict" /\ response.status = "success"

ChartPattern(filename) ==
    startswith(filename, <<"c", "h", "a", "r", "t", "_">>)
        /\ endswith(filename, <<".", "p", "n", "g">>)

Age(filename) == now - static[filename].ctime

StaleChart(filename) ==
    /\ filename \in DOMAIN static
    /\ ChartPattern(filename)
    /\ Age(filename) > 1800

\* C1: a predict request whose vehicle_type, lower-cased, is not a known
\* type is answered with status 400 and a message listing exactly
\* car, bike, scooter, bus; it yields no success, no table rows and no
\* chart reference, and the step writes no file and draws no number.
C1_Rejected ==
    (PredictAnswered /\ lower(response.vehicle_type) \notin KnownTypes) =>
        /\ response.code = 400
        /\ response.status # "success"
        /\ response.error[2] =
               << <<"c", "a", "r">>, <<"b", "i", "k", "e">>,
                  <<"s", "c", "o", "o", "t", "e", "r">>, <<"b", "u", "s">> >>
        /\ response.table_data = <<>>
        /\ response.chart_url = <<>>

C1_NoEffect ==
    (op'.name = "predict" /\ lower(response'.vehicle_type) \notin KnownTypes) =>
        /\ static' = static
        /\ np_random' = np_random
        /\ open_figures' = open_figures
        /\ first_table' = first_table

\* C1: both parts, in every state and over every step.
C1_InvalidTypeIsClientFault == [] C1_Rejected /\ [][C1_NoEffect]_vars

C1_Witness ==
    /\ PredictAnswered
    /\ response.vehicle_type = <<"a", "i", "r", "p", "l", "a", "n", "e">>
    /\ response.code = 400
    /\ first_table[Car].calls > 0

\* C2: in every success response of predict, each of the 9 rows has
\* difference = predicted - original (values in units of 0.0001).
C2_DifferenceIsPredictedMinusOriginal ==
    Succeeded =>
        /\ Len(response.table_data) = 9
        /\ \A i \in 1 .. 9 :
              response.table_data[i].difference =
                  response.table_data[i].predicted
                      - response.table_data[i].original

C2_Witness ==
    /\ Succeeded
    /\ \E i \in 1 .. 9 : response.table_data[i].difference < 0
    /\ \E i \in 1 .. 9 : response.table_data[i].difference > 0

\* C3: every success response of predict carries the table that the first
\* success for the same vehicle_type string carried, whatever requests were
\* handled in between.
C3_SameTypeSameTable ==
    Succeeded => response.table_data = first_table[response.vehicle_type].rows

C3_Witness ==
    /\ Succeeded
    /\ response.vehicle_type = Car
    /\ first_table[Car].calls = 2
    /\ first_table[CapitalBus].calls > 0
    /\ first_table[Car].rows # first_table[CapitalBus].rows

\* C4: when chart rendering fails (at plt.figure, while drawing or at
\* plt.savefig) in a predict call that passed validation and met no other
\* fault, the response is a success with the full table and the placeholder
\* chart reference.
C4_ChartFailureStillSucceeds ==
    ( /\ PredictAnswered
      /\ op.chart_fault # "none"
      /\ op.log_fault = "none"
      /\ lower(response.vehicle_type) \in KnownTypes ) =>
        /\ response.code = 200
        /\ response.status = "success"
        /\ Len(response.table_data) = 9
        /\ response.chart_url =
               <<"/", "s", "t", "a", "t", "i", "c", "/">> \o PlaceholderName

C4_Witness ==
    /\ Succeeded
    /\ op.chart_fault = "savefig"
    /\ response.chart_url = PlaceholderUrl

\* C5: a step removes a file of the static directory only if its name
\* starts with "chart_" and ends with ".png" and its age at that time is
\* more than 1800 seconds.
C5_Removal ==
    \A filename \in DOMAIN static :
        filename \notin DOMAIN static' =>
            ChartPattern(filename) /\ Age(filename) > 1800

\* C5: the removal condition holds of every step.
C5_OnlyStaleChartsRemoved == [][C5_Removal]_vars

C5_Witness ==
    /\ cleanup_log.removed # {}
    /\ \E filename \in ChartNames :
          filename \in DOMAIN static /\ Age(filename) > 0
    /\ Age(PlaceholderName) > 1800
    /\ NotesName \in DOMAIN static
    /\ Age(NotesName) > 1800

\* C6: a chart render never writes a file name that is already in the
\* static directory.
C6_FreshName ==
    (op'.name = "predict" /\ response'.status = "success") =>
        \A filename \in ChartNames :
            response'.chart_url = chart_url_of(filename) =>
                filename \notin DOMAIN static

\* C6: every render writes a fresh name.
C6_NoFileWrittenTwice == [][C6_FreshName]_vars

\* C7: a server-fault response of predict carries no text of the
\* underlying exception.
C7_GenericServerFault ==
    (PredictAnswered /\ response.code = 500) =>
        \A text \in ExcTexts : text \notin Range(response.error)

\* C8: no figure stays open after a request.
C8_NoOpenFigure == open_figures = 0

\* C9: a cleanup call made when no more than 600 seconds have passed since
\* last_cleanup removes nothing and leaves last_cleanup; last_cleanup
\* changes only to the time of a sweep that completed, more than 600
\* seconds after its former value; a sweep that ended in an error leaves
\* last_cleanup, and the health check that made it answers "healthy".
C9_Gate ==
    /\ now - last_cleanup <= 600 =>
          /\ DOMAIN static \subseteq DOMAIN static'
          /\ last_cleanup' = last_cleanup
    /\ last_cleanup' # last_cleanup =>
          /\ CleanupCalled'
          /\ cleanup_log'.outcome = "completed"
          /\ last_cleanup' = now'
          /\ last_cleanup' - last_cleanup > 600
    /\ (CleanupCalled' /\ cleanup_log'.outcome = "error") =>
          /\ last_cleanup' = last_cleanup
          /\ op'.name = "health" =>
                response'.code = 200 /\ response'.status = "healthy"

\* C9: the gate holds of every step.
C9_SweepIsTimeGated == [][C9_Gate]_vars

C9_Witness ==
    /\ op.name = "health"
    /\ cleanup_log.outcome = "error"
    /\ response.status = "healthy"
    /\ last_cleanup > 600

\* C10: with health checks arriving and time advancing, once a chart file
\* is older than 1800 seconds and a sweep is due, the file is eventually
\* removed, whatever else the directory holds.
C10_StaleChartEventuallyRemoved ==
    \A filename \in ChartNames :
        (StaleChart(filename) /\ now - last_cleanup > 600)
            ~> ~StaleChart(filename)

====
